---- MODULE Spec2Model ----
(***************************************************************************)
(* HuggingFaceFineTunedDemo (main.py): a QCAlgorithm that, on a calendar    *)
(* schedule, fine-tunes a Chronos model on the closes of the selected       *)
(* universe, forecasts, maximises the forward Sharpe ratio and applies the  *)
(* resulting portfolio targets.                                             *)
(*                                                                          *)
(* Time is counted in whole days (proleptic ordinals, datetime.min = 1).    *)
(* Weights are counted in units of 1/Unit.  The framework (scheduler, data  *)
(* feed, universe selection), the Chronos trainer/pipeline and the SciPy    *)
(* solver are external: what they hand to the algorithm is drawn from       *)
(* small sets, and each external call may raise.                            *)
(***************************************************************************)
EXTENDS Integers, Sequences, FiniteSets

VARIABLES
    time,              \* self.time, in days
    is_warming_up,     \* self.is_warming_up
    _last_rebalance,   \* self._last_rebalance
    holdings,          \* portfolio: symbol -> target fraction last applied
    model_artifact,    \* day the model at self._model_path was last saved (0: never)
    \* what the last call of _trade did (all reset at every call):
    outcome,           \* how the call ended
    symbols,           \* list(self._universe.selected) read at line 126
    history,           \* symbol -> number of non-missing closes returned
    training_data,     \* the series handed to _train_chronos, by symbol
    trainer_calls,     \* number of calls of _train_chronos
    predict_inputs,    \* the series handed to pipeline.predict, by symbol
    forecast_columns,  \* columns of forecasts_df: label and forecast's source
    solver,            \* result of scipy minimize: [success, x], or NoResult
    targets,           \* the PortfolioTarget list handed to set_holdings
    set_holdings_calls \* the liquidate flags of the calls of set_holdings

vars == <<time, is_warming_up, _last_rebalance, holdings, model_artifact,
          outcome, symbols, history, training_data, trainer_calls,
          predict_inputs, forecast_columns, solver, targets,
          set_holdings_calls>>

----------------------------------------------------------------------------
(* Program constants *)

datetime_min == 1             \* datetime.min, 0001-01-01
start_date == 737060          \* 2019-01-01
warm_up == 31                 \* timedelta(31)
min_spacing == 80             \* timedelta(80)
min_observations == 10        \* df.shape[0] < 10
universe_size == 5            \* get_parameter('universe_size', 5)

(* Bounds of the model *)

NumSymbols == 5               \* symbols in the market
Horizon == 83                 \* days simulated after start_date
HorizonCycle == 80           \* the same for SpecCycle

Symbols == 1..NumSymbols

\* One weight unit is 1/Unit; Unit is divisible by every 1..universe_size.
Unit == 3 * 4 * 5
\* A non-finite float (nan).
NaN == 0 - 1

----------------------------------------------------------------------------
(* Sequences *)

Range(s) == {s[i] : i \in DOMAIN s}

RECURSIVE SumSeq(_)
SumSeq(s) == IF s = <<>> THEN 0 ELSE Head(s) + SumSeq(Tail(s))

----------------------------------------------------------------------------
(* External collaborators: what they can hand to the algorithm *)

\* Universe selection (dollar_volume.top(universe_size)): the top k symbols
\* of the ranking, in the ranking's order (which is not the symbols' own
\* order), without repetition; fewer than universe_size when the market
\* holds fewer.
Descending(k) == [i \in 1..k |-> NumSymbols + 1 - i]
Universes == {Descending(k) : k \in 0..universe_size}
SmallUniverses == {<<>>, Descending(2)}

\* self.history(symbols, lookback)['close']: the number of non-missing closes
\* of each requested symbol, just below or at the threshold of line 135.
ObsCounts == {min_observations - 1, min_observations}
Histories(syms) ==
    {[s \in Symbols |-> IF s \in Range(syms) THEN f[s] ELSE 0] :
        f \in [Range(syms) -> ObsCounts]}

\* Where an external call of the rebalance raises, if any does.
FailPoints == {"none", "history", "train", "load", "predict", "optimize"}

\* Days between two firings of the scheduled event.
TickGaps == {1, 39, 40}
TickGapsCycle == {20, 80}

----------------------------------------------------------------------------
(* _optimize_portfolio and the solver *)

\* initial_guess = num_assets * [1. / num_assets,]
initial_guess(num_assets) == [i \in 1..num_assets |-> Unit \div num_assets]

UnitVector(n, k) == [i \in 1..n |-> IF i = k THEN Unit ELSE 0]
NaNVector(n) == [i \in 1..n |-> NaN]

NoResult == [status |-> "not_run", success |-> FALSE, x |-> <<>>]

\* scipy.optimize.minimize(..., x0, method='SLSQP', bounds ((0,1),)*n,
\* constraints sum(w) - 1 = 0).  A converged run ends at a point inside the
\* bounds that meets the constraint; a run that does not converge reports
\* success = False and leaves in x the iterate it stopped at: the initial
\* guess, or a non-finite vector when the objective is not finite (zero
\* portfolio variance in _sharpe_ratio).
minimize(x0, lo, hi, total) ==
    LET n == Len(x0)
        points == {UnitVector(n, k) : k \in 1..n} \cup {x0}
    IN  {[status |-> "done", success |-> TRUE, x |-> p] :
            p \in {q \in points : /\ \A i \in 1..n : lo <= q[i] /\ q[i] <= hi
                                  /\ SumSeq(q) = total}}
        \cup {[status |-> "done", success |-> FALSE, x |-> p] :
                p \in {x0, NaNVector(n)}}

\* What the solver can return for num_assets columns.
SolverResults(num_assets) ==
    IF num_assets = 0 THEN {NoResult}
    ELSE minimize(initial_guess(num_assets), 0, Unit, Unit)

\* return result.x (result.success is not read)
_optimize_portfolio(result) == result.x

----------------------------------------------------------------------------
(* _trade *)

\* Variant: the comparison written "<=", so that exactly 80 days is too soon.
SpacingElapsedStrict(now, last) == ~(now - last <= min_spacing)

\* not (self.time - self._last_rebalance < timedelta(80))
SpacingElapsed(now, last) == ~(now - last < min_spacing)

\* Variant: the comparison written "<=", so that 10 closes are too few.
HasEnoughDataStrict(n_obs) == ~(n_obs <= min_observations)

\* not (df.shape[0] < 10)
HasEnoughData(n_obs) == ~(n_obs < min_observations)

\* training_data_by_symbol: the symbols of `symbols` that pass the filter,
\* in the order of insertion; keys and values are in the same order.
training_data_by_symbol(syms, obs) ==
    SelectSeq(syms, LAMBDA s : HasEnoughData(obs[s]))

\* [PortfolioTarget(symbol, optimal_weights[i])
\*      for i, symbol in enumerate(tradable_symbols)]
PortfolioTargets(tradable_symbols, optimal_weights) ==
    [i \in 1..Len(tradable_symbols) |->
        [symbol |-> tradable_symbols[i], quantity |-> optimal_weights[i]]]

\* Variant: a frame built from a dict with its columns sorted by label (as
\* pandas did before dicts kept insertion order); column i is the i-th
\* smallest symbol and holds that symbol's forecast.
SortedSeq(S) ==
    [i \in 1..Cardinality(S) |->
        CHOOSE s \in S : Cardinality({t \in S : t < s}) = i - 1]
ForecastsDfSorted(tradable_symbols, inputs) ==
    LET sorted == SortedSeq(Range(tradable_symbols))
    IN  [i \in 1..Len(sorted) |->
            [label |-> sorted[i], forecast_of |-> sorted[i]]]

\* forecasts_df: column i is labelled tradable_symbols[i] and holds
\* all_forecasts[i], the forecast of the i-th series given to predict.
ForecastsDf(tradable_symbols, inputs) ==
    [i \in 1..Len(tradable_symbols) |->
        [label |-> tradable_symbols[i], forecast_of |-> inputs[i]]]

\* Variant: set_holdings called without liquidating the other positions.
keep_existing_holdings == FALSE

\* The second argument of set_holdings at line 195.
liquidate_existing_holdings == TRUE

\* self.set_holdings(targets, liquidate_existing_holdings)
SetHoldings(h, tgts, liquidate) ==
    [s \in Symbols |->
        IF \E i \in DOMAIN tgts : tgts[i].symbol = s
        THEN (CHOOSE q \in {tgts[i].quantity : i \in DOMAIN tgts} :
                  \E i \in DOMAIN tgts :
                      tgts[i].symbol = s /\ tgts[i].quantity = q)
        ELSE IF liquidate THEN 0 ELSE h[s]]

\* Variant: an empty series list does not stop the trainer (a guarded
\* default probability), so the rebalance goes on with no tradable symbol.
EndingEmptyTrains(fail, n) ==
    IF fail = "history" THEN "abort_history"
    ELSE IF fail = "train" THEN "abort_train"
    ELSE IF fail = "load" THEN "abort_load"
    ELSE IF fail = "predict" THEN "abort_predict"
    ELSE IF fail = "optimize" THEN "abort_optimize"
    ELSE "completed"

\* How far a rebalance gets when the external call `fail` raises and
\* n series passed the filter: the statement that ends it.
Ending(fail, n) ==
    IF fail = "history" THEN "abort_history"           \* lines 129-142
    ELSE IF n = 0 THEN "abort_train_probability"        \* line 245: 1.0 / 0
    ELSE IF fail = "train" THEN "abort_train"           \* lines 264-339
    ELSE IF fail = "load" THEN "abort_load"             \* line 160
    ELSE IF fail = "predict" THEN "abort_predict"       \* line 167
    ELSE IF fail = "optimize" THEN "abort_optimize"     \* line 187
    ELSE "completed"                                    \* line 190

Rank(e) ==
    CASE e = "abort_history" -> 0
      [] e = "abort_train_probability" -> 1
      [] e = "abort_train" -> 1
      [] e = "abort_load" -> 2
      [] e = "abort_predict" -> 3
      [] e = "abort_optimize" -> 4
      [] e = "completed" -> 5

\* Variant: the positions are liquidated when the rebalance starts, before
\* the model is trained.
HoldingsAfterLiquidateFirst(h, e, tgts) ==
    IF e = "completed" THEN SetHoldings(h, tgts, liquidate_existing_holdings)
    ELSE [s \in Symbols |-> 0]

\* The holdings after a rebalance that ended with `e`: set_holdings is the
\* last statement, an exception before it leaves the portfolio alone.
HoldingsAfter(h, e, tgts) ==
    IF e = "completed" THEN SetHoldings(h, tgts, liquidate_existing_holdings)
    ELSE h

\* The call log reset, with how the call ended.
NoRebalance(how) ==
    /\ outcome' = how
    /\ symbols' = <<>>
    /\ history' = [s \in Symbols |-> 0]
    /\ training_data' = <<>>
    /\ trainer_calls' = 0
    /\ predict_inputs' = <<>>
    /\ forecast_columns' = <<>>
    /\ solver' = NoResult
    /\ targets' = <<>>
    /\ set_holdings_calls' = <<>>
    /\ UNCHANGED <<_last_rebalance, holdings, model_artifact>>

\* The solver runs only in a rebalance that reaches line 187.
SolverOutcomes(syms, obs, fail) ==
    LET n == Len(training_data_by_symbol(syms, obs))
    IN  IF Ending(fail, n) = "completed" THEN SolverResults(n) ELSE {NoResult}

\* Lines 124-196, with the universe syms, the closes obs, the external call
\* `fail` raising and the solver returning res.
Rebalance(now, syms, obs, fail, res) ==
    LET train == training_data_by_symbol(syms, obs)
        tradable_symbols == training_data_by_symbol(syms, obs)
        e == Ending(fail, Len(tradable_symbols))
        r == Rank(e)
        optimal_weights == _optimize_portfolio(res)
        tgts == IF r >= 5
                THEN PortfolioTargets(tradable_symbols, optimal_weights)
                ELSE <<>>
    IN  /\ _last_rebalance' = now
        /\ outcome' = e
        /\ symbols' = syms
        /\ history' = IF r >= 1 THEN obs ELSE [s \in Symbols |-> 0]
        /\ training_data' = IF r >= 1 THEN train ELSE <<>>
        /\ trainer_calls' = IF r >= 1 THEN 1 ELSE 0
        /\ model_artifact' = IF r >= 2 THEN now ELSE model_artifact
        /\ predict_inputs' = IF r >= 3 THEN tradable_symbols ELSE <<>>
        /\ forecast_columns' =
               IF r >= 4 THEN ForecastsDf(tradable_symbols, tradable_symbols)
               ELSE <<>>
        /\ solver' = IF r >= 5 THEN res ELSE NoResult
        /\ targets' = tgts
        /\ set_holdings_calls' =
               IF r >= 5 THEN <<liquidate_existing_holdings>> ELSE <<>>
        /\ holdings' = HoldingsAfter(holdings, e, tgts)

\* Variant: _trade without the warm-up check of lines 119-120.
_trade_without_warmup_check(now, warming, universes) ==
    IF ~SpacingElapsed(now, _last_rebalance)
    THEN NoRebalance("skip_spacing")
    ELSE \E syms \in universes :
         \E obs \in Histories(syms) :
         \E fail \in FailPoints :
         \E res \in SolverOutcomes(syms, obs, fail) :
             Rebalance(now, syms, obs, fail, res)

\* def _trade(self), called at time `now` with is_warming_up = warming.
_trade(now, warming, universes) ==
    IF warming THEN NoRebalance("skip_warmup")
    ELSE IF ~SpacingElapsed(now, _last_rebalance)
         THEN NoRebalance("skip_spacing")
    ELSE \E syms \in universes :
         \E obs \in Histories(syms) :
         \E fail \in FailPoints :
         \E res \in SolverOutcomes(syms, obs, fail) :
             Rebalance(now, syms, obs, fail, res)

----------------------------------------------------------------------------
(* The framework's events *)

\* initialize(): the algorithm starts warm_up days before start_date.
Init ==
    /\ time = start_date - warm_up
    /\ is_warming_up = TRUE
    /\ _last_rebalance = datetime_min
    /\ holdings = [s \in Symbols |-> 0]
    /\ model_artifact = 0
    /\ outcome = "none"
    /\ symbols = <<>>
    /\ history = [s \in Symbols |-> 0]
    /\ training_data = <<>>
    /\ trainer_calls = 0
    /\ predict_inputs = <<>>
    /\ forecast_columns = <<>>
    /\ solver = NoResult
    /\ targets = <<>>
    /\ set_holdings_calls = <<>>

\* The scheduled event (schedule.on(..., self._trade)) fires d days after
\* the last event; during warm-up it fires before start_date.
ScheduledEvent(d, universes, last_day) ==
    /\ time + d <= last_day
    /\ is_warming_up => time + d < start_date
    /\ time' = time + d
    /\ UNCHANGED is_warming_up
    /\ _trade(time + d, is_warming_up, universes)

\* Warm-up ends at start_date: the framework clears is_warming_up and calls
\* on_warmup_finished, which calls _trade.
on_warmup_finished(universes) ==
    /\ is_warming_up
    /\ time' = start_date
    /\ is_warming_up' = FALSE
    /\ _trade(start_date, FALSE, universes)

Tick == \E d \in TickGaps :
            ScheduledEvent(d, SmallUniverses, start_date + Horizon)
WarmupFinished == on_warmup_finished(SmallUniverses)

Next == Tick \/ WarmupFinished

Spec == Init /\ [][Next]_vars

TickCycle == \E d \in TickGapsCycle :
                 ScheduledEvent(d, Universes, start_date + HorizonCycle)
WarmupFinishedCycle == on_warmup_finished(Universes)

NextCycle == TickCycle \/ WarmupFinishedCycle

SpecCycle == Init /\ [][NextCycle]_vars

----------------------------------------------------------------------------
(* Properties *)

\* The last call of _trade got past the warm-up and spacing checks.
Rebalanced(o) == o \notin {"none", "skip_warmup", "skip_spacing"}

Aborted(o) == o \in {"abort_history", "abort_train_probability",
                     "abort_train", "abort_load", "abort_predict",
                     "abort_optimize"}

\* The symbols of the last cycle with at least 10 closes, as a set.
TradableSet == {s \in Range(symbols) : history[s] >= 10}

TargetSymbols == {targets[i].symbol : i \in DOMAIN targets}

\* C1: a scheduled tick that calls _trade while the algorithm is not warming
\* up rebalances if and only if at least 80 days have passed since
\* _last_rebalance; a rebalance moves the marker to the current time, a
\* skipped tick leaves it.
C1_RebalanceIffSpacingElapsed ==
    [][~is_warming_up =>
          /\ Rebalanced(outcome') <=> (time' - _last_rebalance >= 80)
          /\ Rebalanced(outcome') => _last_rebalance' = time'
          /\ ~Rebalanced(outcome') => _last_rebalance' = _last_rebalance]_vars

\* C1 witness: the tick 81 days after the first rebalance has rebalanced.
C1_Witness ==
    /\ ~is_warming_up
    /\ time = start_date + 81
    /\ _last_rebalance = time
    /\ Rebalanced(outcome)

\* C2: a call of _trade that gets past the checks either completes, with
\* every stage run and the targets applied by one set_holdings call, or
\* aborts, with no target emitted and the holdings exactly as before.
C2_NoPartialRebalance ==
    [][/\ Rebalanced(outcome') => (outcome' = "completed" \/ Aborted(outcome'))
       /\ outcome' = "completed" =>
              /\ trainer_calls' = 1
              /\ model_artifact' = time'
              /\ predict_inputs' = training_data'
              /\ Len(forecast_columns') = Len(training_data')
              /\ solver'.status = "done"
              /\ Len(set_holdings_calls') = 1
              /\ Len(targets') = Len(training_data')
              /\ \A i \in DOMAIN targets' :
                     holdings'[targets'[i].symbol] = targets'[i].quantity
       /\ Aborted(outcome') =>
              /\ holdings' = holdings
              /\ targets' = <<>>
              /\ set_holdings_calls' = <<>>]_vars

\* C2 witness: a rebalance aborted after training while positions are held.
C2_Witness ==
    /\ outcome = "abort_optimize"
    /\ \E s \in Symbols : holdings[s] > 0
    /\ _last_rebalance = time

\* C3: in one cycle the i-th series given to the trainer, the i-th series
\* given to the forecaster, the i-th column of the forecast table (its label
\* and the forecast it holds) and the i-th target are of the same symbol,
\* and the i-th target carries the i-th weight the optimizer returned.
C3_SameOrderAtEveryStage ==
    /\ predict_inputs # <<>> => predict_inputs = training_data
    /\ forecast_columns # <<>> =>
           /\ Len(forecast_columns) = Len(training_data)
           /\ \A i \in DOMAIN forecast_columns :
                  /\ forecast_columns[i].label = training_data[i]
                  /\ forecast_columns[i].forecast_of = predict_inputs[i]
    /\ outcome = "completed" =>
           /\ Len(targets) = Len(training_data)
           /\ Len(solver.x) = Len(forecast_columns)
           /\ \A i \in DOMAIN targets :
                  /\ targets[i].symbol = forecast_columns[i].forecast_of
                  /\ targets[i].symbol = training_data[i]
                  /\ targets[i].quantity = solver.x[i]

\* C3 witness: a completed cycle of several symbols, not in sorted order,
\* one of the selected symbols filtered out, with unequal weights.
C3_Witness ==
    /\ outcome = "completed"
    /\ Len(targets) >= 2
    /\ Len(symbols) > Len(targets)
    /\ targets[1].symbol > targets[2].symbol
    /\ targets[1].quantity # targets[2].quantity

\* C4: a completed rebalance emits one target per tradable symbol, none
\* twice, in a single set_holdings call with the liquidate flag set, so that
\* every symbol outside the tradable set is left with no allocation; the
\* trainer was called once with one series per tradable symbol, and with 5
\* selected symbols that all pass the filter there are 5 series and 5 targets.
C4_OneTargetPerTradableAsset ==
    outcome = "completed" =>
        /\ TargetSymbols = TradableSet
        /\ Len(targets) = Cardinality(TradableSet)
        /\ set_holdings_calls = <<TRUE>>
        /\ \A s \in Symbols \ TradableSet : holdings[s] = 0
        /\ trainer_calls = 1
        /\ Len(training_data) = Cardinality(TradableSet)
        /\ (Len(symbols) = 5 /\ \A s \in Range(symbols) : history[s] >= 10)
               => (Len(training_data) = 5 /\ Len(targets) = 5)

\* C4 witness: a completed rebalance of 5 selected symbols, all with enough
\* closes.
C4_Witness ==
    /\ outcome = "completed"
    /\ Len(symbols) = 5
    /\ \A s \in Range(symbols) : history[s] >= 10
    /\ Len(targets) = 5
    /\ trainer_calls = 1

\* C5: in a cycle that reaches the trainer, a selected symbol with fewer
\* than 10 closes is given neither to the trainer nor to the forecaster and
\* gets no forecast column and no target; a selected symbol with at least 10
\* closes is given to the trainer.
C5_TooFewObservationsExcluded ==
    trainer_calls = 1 =>
        \A s \in Range(symbols) :
            /\ history[s] < 10 =>
                   /\ s \notin Range(training_data)
                   /\ s \notin Range(predict_inputs)
                   /\ \A i \in DOMAIN forecast_columns :
                          forecast_columns[i].label # s
                   /\ s \notin TargetSymbols
            /\ history[s] >= 10 => s \in Range(training_data)

\* C5 witness: a completed cycle with one selected symbol at 9 closes and
\* another at 10.
C5_Witness ==
    /\ outcome = "completed"
    /\ \E s \in Range(symbols) : history[s] = 9
    /\ \E s \in Range(symbols) : history[s] = 10 /\ s \in TargetSymbols

\* C6: when the solver does not converge the rebalance aborts in the
\* optimization and its vector is never emitted as targets.
C6_NonConvergenceAborts ==
    (solver.status = "done" /\ ~solver.success) =>
        (outcome = "abort_optimize" /\ targets = <<>>)

\* C7: after a rebalance aborted by a training failure, the next scheduled
\* tick is not skipped by the spacing check: it rebalances again.
C7_NextTickRetriesAfterTrainingFailure ==
    [][(outcome = "abort_train" /\ time' > time)
           => Rebalanced(outcome')]_vars

\* C8: the end of warm-up triggers one rebalance at once (the marker is
\* still datetime.min); a call of _trade during warm-up does nothing; and up
\* to 80 days after that first rebalance no tick causes a second one.
C8_FirstRebalanceAtWarmupEnd ==
    [][/\ (is_warming_up /\ ~is_warming_up') =>
              /\ _last_rebalance = datetime_min
              /\ Rebalanced(outcome')
              /\ trainer_calls' <= 1
              /\ _last_rebalance' = time'
       /\ is_warming_up' =>
              /\ outcome' = "skip_warmup"
              /\ trainer_calls' = 0
              /\ targets' = <<>>
              /\ UNCHANGED <<_last_rebalance, holdings, model_artifact>>
       /\ (~is_warming_up /\ _last_rebalance = start_date
               /\ time' - start_date < 80) =>
              /\ outcome' = "skip_spacing"
              /\ UNCHANGED <<_last_rebalance, holdings, model_artifact>>]_vars

\* C8 witness: the tick one day after the rebalance at the end of warm-up
\* was skipped.
C8_Witness ==
    /\ ~is_warming_up
    /\ _last_rebalance = start_date
    /\ time = start_date + 1
    /\ outcome = "skip_spacing"

\* C9: the weights the optimizer returns and the rebalance emits are one per
\* forecast column, each in [0, 1], and sum to 1; for a single column the
\* vector is exactly [1.0].
C9_WeightsFeasible ==
    outcome = "completed" =>
        /\ Len(solver.x) = Len(forecast_columns)
        /\ \A i \in DOMAIN solver.x : 0 <= solver.x[i] /\ solver.x[i] <= Unit
        /\ SumSeq(solver.x) = Unit
        /\ \A i \in DOMAIN targets : targets[i].quantity = solver.x[i]
        /\ Len(forecast_columns) = 1 => solver.x = <<Unit>>

\* C10: a rebalance that reaches line 143 with no tradable symbol calls the
\* trainer with an empty list and aborts on the default probabilities,
\* before a model is loaded, trained or saved; it emits no target, leaves
\* the holdings alone, and the marker is already at the current time.
C10_EmptyTradableSetAbortsInTrainer ==
    [][(Rebalanced(outcome') /\ outcome' # "abort_history"
            /\ \A s \in Range(symbols') : history'[s] < 10) =>
          /\ outcome' = "abort_train_probability"
          /\ trainer_calls' = 1
          /\ training_data' = <<>>
          /\ predict_inputs' = <<>>
          /\ targets' = <<>>
          /\ set_holdings_calls' = <<>>
          /\ UNCHANGED <<holdings, model_artifact>>
          /\ _last_rebalance' = time']_vars

\* C10 witness: a cycle whose selected symbols all have 9 closes aborted in
\* the trainer while positions are held.
C10_Witness ==
    /\ outcome = "abort_train_probability"
    /\ Len(symbols) >= 1
    /\ \A s \in Range(symbols) : history[s] = 9
    /\ \E s \in Symbols : holdings[s] > 0
    /\ _last_rebalance = time

====
